---- MODULE Spec2Model ----
(***************************************************************************)
(* A model of src/descriptors.py: the three attribute descriptors          *)
(* OperableProperty, Result and Alias, the operator overloads that build   *)
(* Result expressions, and the attribute protocol of the interpreter       *)
(* (getattr / setattr / delattr with data-descriptor dispatch) they run on.*)
(*                                                                         *)
(* Strings are sequences of one-character strings, so that str.replace     *)
(* and str.split are computed as the interpreter computes them.  The fixed *)
(* parts of an error message are single tokens; they hold no identifier    *)
(* character, so no attribute name can match inside them.                  *)
(* Numbers are exact rationals n/d (d > 0, lowest terms): int arithmetic   *)
(* is exact, and the float that truediv returns is modelled by the exact   *)
(* quotient.                                                               *)
(***************************************************************************)
EXTENDS Integers, Sequences, FiniteSets, TLC

VARIABLES cls, heap, assigned, last

vars == <<cls, heap, assigned, last>>

(***************************************************************************)
(* Bounds of the model.                                                    *)
(***************************************************************************)
\* the interpreter's limit on nested Python frames (1000 by default)
RecursionLimit == 8
\* descriptor methods allowed per level of an expression tree or per segment
\* of an alias path, when an access is called bounded by that depth or length
StepFactor == 4
\* the values a caller assigns to attributes
Values == {0, 2, 3, 4, 5, 10}

(***************************************************************************)
(* Python values and outcomes of an attribute access.                      *)
(***************************************************************************)
RECURSIVE GCD(_, _)
GCD(a, b) == IF b = 0 THEN a ELSE GCD(b, a % b)

Abs(n) == IF n < 0 THEN -n ELSE n

\* the rational n/d in lowest terms with a positive denominator (d # 0)
Num(n, d) ==
    LET s == IF d < 0 THEN -1 ELSE 1
        g == GCD(Abs(n), Abs(d))
    IN  [t |-> "num", n |-> (s * n) \div g, d |-> (s * d) \div g, ref |-> ""]

IntVal(n) == Num(n, 1)

\* a reference to an object of the heap
Ref(id) == [t |-> "obj", n |-> 0, d |-> 1, ref |-> id]

None == [t |-> "none", n |-> 0, d |-> 1, ref |-> ""]

\* a descriptor object used as a value (an operand taken as it is, or the
\* Result an operator overload builds from it)
DescriptorObject == [t |-> "descriptor", n |-> 0, d |-> 1, ref |-> ""]

Ok(v) == [ok |-> TRUE, val |-> v, exc |-> "", msg |-> <<>>, cause |-> <<>>]

\* raise exc(msg); cause is <<>> or <<the message of the error raised from>>
Err(exc, msg, cause) ==
    [ok |-> FALSE, val |-> None, exc |-> exc, msg |-> msg, cause |-> cause]

\* the result of a call: its outcome and the state it leaves
Return(st, out) == [st |-> st, out |-> out]

\* str.replace(old, new): every non-overlapping occurrence, left to right
RECURSIVE Replace(_, _, _)
Replace(s, old, new) ==
    IF Len(s) < Len(old) THEN s
    ELSE IF SubSeq(s, 1, Len(old)) = old
         THEN new \o Replace(SubSeq(s, Len(old) + 1, Len(s)), old, new)
         ELSE <<s[1]>> \o Replace(Tail(s), old, new)

\* str.split("."): the segments between the dots
RECURSIVE SplitFrom(_, _, _)
SplitFrom(s, i, cur) ==
    IF i > Len(s) THEN <<cur>>
    ELSE IF s[i] = "." THEN <<cur>> \o SplitFrom(s, i + 1, <<>>)
         ELSE SplitFrom(s, i + 1, Append(cur, s[i]))

Split(s) == SplitFrom(s, 1, <<>>)

\* whether sub occurs in s
Contains(s, sub) ==
    \E i \in 1..(Len(s) - Len(sub) + 1) : SubSeq(s, i, i + Len(sub) - 1) = sub

(***************************************************************************)
(* The descriptors: construction, naming and operator overloads.           *)
(***************************************************************************)
Blank ==
    [kind |-> "", name |-> <<>>, private_name |-> <<>>, operation |-> "",
     values |-> <<>>, attribute_path |-> <<>>, names_list |-> <<>>,
     attribute_name |-> <<>>, val |-> None]

\* an operand that is no descriptor: a literal number
Lit(n) == [Blank EXCEPT !.kind = "literal", !.val = IntVal(n)]

IsExpressionDescriptor(v) == v.kind \in {"OperableProperty", "Result", "Alias"}

ExpressionDescriptorSetName(self, name) == [self EXCEPT !.name = name]

OperablePropertyInit == [Blank EXCEPT !.kind = "OperableProperty"]

OperablePropertySetName(self, name) ==
    [ExpressionDescriptorSetName(self, name) EXCEPT !.private_name = <<"_">> \o name]

\* OperableProperty() bound to `name` in a class body
Property(name) == OperablePropertySetName(OperablePropertyInit, name)

ResultInit(operation, values) ==
    [Blank EXCEPT !.kind = "Result", !.operation = operation, !.values = values]

Mul(self, other) == ResultInit("mul", <<self, other>>)
RMul(self, other) == ResultInit("mul", <<other, self>>)
TrueDiv(self, other) == ResultInit("truediv", <<self, other>>)
RTrueDiv(self, other) == ResultInit("truediv", <<other, self>>)
Add(self, other) == ResultInit("add", <<self, other>>)
RAdd(self, other) == ResultInit("add", <<other, self>>)
Sub(self, other) == ResultInit("sub", <<self, other>>)
\* a reflected subtraction that keeps self on the left
RSubUnswapped(self, other) == ResultInit("sub", <<self, other>>)

RSub(self, other) == ResultInit("sub", <<other, self>>)

AliasInit(attribute_path) ==
    LET names == Split(attribute_path)
    IN  [Blank EXCEPT !.kind = "Alias", !.attribute_path = attribute_path,
                      !.names_list = names, !.attribute_name = names[Len(names)]]

\* a descriptor bound to `name` in a class body
Bound(desc, name) == ExpressionDescriptorSetName(desc, name)

(***************************************************************************)
(* The classes of the model.  Each is a class body as a class author       *)
(* writes it: the attribute names are bound by __set_name__ when the class *)
(* is created, the Results are built by the operator overloads.            *)
(***************************************************************************)
n_width == <<"w", "i", "d", "t", "h">>
n_height == <<"h", "e", "i", "g", "h", "t">>
n_area == <<"a", "r", "e", "a">>
n_price == <<"p", "r", "i", "c", "e">>
n_quantity == <<"q", "u", "a", "n", "t", "i", "t", "y">>
n_subtotal == <<"s", "u", "b", "t", "o", "t", "a", "l">>
n_total == <<"t", "o", "t", "a", "l">>
n_a == <<"a">>
n_b == <<"b">>
n_diff == <<"d", "i", "f", "f">>
n_rdiff == <<"r", "d", "i", "f", "f">>
n_five == <<"f", "i", "v", "e">>
n_quot == <<"q", "u", "o", "t">>
n_rquot == <<"r", "q", "u", "o", "t">>
n_twice == <<"t", "w", "i", "c", "e">>
n_plus == <<"p", "l", "u", "s">>
n_inner == <<"i", "n", "n", "e", "r">>
n_value == <<"v", "a", "l", "u", "e">>
n_alias == <<"a", "l", "i", "a", "s">>
n_doubled == <<"d", "o", "u", "b", "l", "e", "d">>
n_x == <<"x">>
n_ux == <<"_", "x">>
n_y == <<"y">>
n_p == <<"p">>
n_q == <<"q">>

p_width == Property(n_width)
p_height == Property(n_height)
p_price == Property(n_price)
p_quantity == Property(n_quantity)
p_a == Property(n_a)
p_b == Property(n_b)
p_x == Property(n_x)
p_ux == Property(n_ux)
p_y == Property(n_y)
p_value == Property(n_value)
r_subtotal == Bound(Mul(p_price, p_quantity), n_subtotal)
a_alias == Bound(AliasInit(n_inner \o <<".">> \o n_value), n_alias)

\* class Rect: width = OperableProperty(); height = OperableProperty()
\*             area = width * height
Rect ==
    (n_width :> p_width) @@ (n_height :> p_height)
    @@ (n_area :> Bound(Mul(p_width, p_height), n_area))

\* class Order: price, quantity = OperableProperty(), OperableProperty()
\*              subtotal = price * quantity; total = subtotal + price
Order ==
    (n_price :> p_price) @@ (n_quantity :> p_quantity)
    @@ (n_subtotal :> r_subtotal)
    @@ (n_total :> Bound(Add(r_subtotal, p_price), n_total))

\* class Expr: a, b = OperableProperty(), OperableProperty()
\*             diff = a - b; rdiff = b - a; five = 5 - a; quot = a / b
\*             rquot = 5 / a; twice = 2 * a; plus = 2 + a
Expr ==
    (n_a :> p_a) @@ (n_b :> p_b)
    @@ (n_diff :> Bound(Sub(p_a, p_b), n_diff))
    @@ (n_rdiff :> Bound(Sub(p_b, p_a), n_rdiff))
    @@ (n_five :> Bound(RSub(p_a, Lit(5)), n_five))
    @@ (n_quot :> Bound(TrueDiv(p_a, p_b), n_quot))
    @@ (n_rquot :> Bound(RTrueDiv(p_a, Lit(5)), n_rquot))
    @@ (n_twice :> Bound(RMul(p_a, Lit(2)), n_twice))
    @@ (n_plus :> Bound(RAdd(p_a, Lit(2)), n_plus))

\* class Fwd: alias = Alias("inner.value"); doubled = alias * 2
Fwd ==
    (n_alias :> a_alias) @@ (n_doubled :> Bound(Mul(a_alias, Lit(2)), n_doubled))

\* class Clash: x = OperableProperty(); _x = OperableProperty()
Clash == (n_x :> p_x) @@ (n_ux :> p_ux)

\* class Shadow: x = OperableProperty(); y = OperableProperty(); _x = y + 1
Shadow ==
    (n_x :> p_x) @@ (n_y :> p_y) @@ (n_ux :> Bound(Add(p_y, Lit(1)), n_ux))

\* class Loop: a = Alias("a"); p = Alias("q"); q = Alias("p")
Loop ==
    (n_a :> Bound(AliasInit(n_a), n_a))
    @@ (n_p :> Bound(AliasInit(n_q), n_p))
    @@ (n_q :> Bound(AliasInit(n_p), n_q))

\* class Holder: value = OperableProperty()      (an object put at o.inner)
Holder == (n_value :> p_value)

\* class Plain: pass                             (an object put at o.inner)
Plain == [k \in {} |-> Blank]

\* the classes an owner instance o is created from
Classes == {"Rect", "Order", "Expr", "Fwd", "Clash", "Shadow", "Loop"}

Namespace(c) ==
    CASE c = "Rect" -> Rect
      [] c = "Order" -> Order
      [] c = "Expr" -> Expr
      [] c = "Fwd" -> Fwd
      [] c = "Clash" -> Clash
      [] c = "Shadow" -> Shadow
      [] c = "Loop" -> Loop
      [] c = "Holder" -> Holder
      [] OTHER -> Plain

\* owner.__name__ as it appears in messages
ClassName(c) ==
    CASE c = "Rect" -> <<"R", "e", "c", "t">>
      [] c = "Order" -> <<"O", "r", "d", "e", "r">>
      [] c = "Expr" -> <<"E", "x", "p", "r">>
      [] c = "Fwd" -> <<"F", "w", "d">>
      [] c = "Clash" -> <<"C", "l", "a", "s", "h">>
      [] c = "Shadow" -> <<"S", "h", "a", "d", "o", "w">>
      [] c = "Loop" -> <<"L", "o", "o", "p">>
      [] c = "Holder" -> <<"H", "o", "l", "d", "e", "r">>
      [] c = "Plain" -> <<"P", "l", "a", "i", "n">>
      [] OTHER -> <<c>>

\* type(v).__name__ of a value that is no object of the heap
TypeName(v) ==
    IF v.t = "num" THEN (IF v.d = 1 THEN "int" ELSE "float")
    ELSE IF v.t = "none" THEN "NoneType" ELSE "Result"

\* the objects of the heap: the owner instance and two objects for o.inner
Objects == {"o", "plain", "holder"}

ClassOf(obj) ==
    IF obj = "o" THEN cls ELSE IF obj = "holder" THEN "Holder" ELSE "Plain"

(***************************************************************************)
(* Calls.  A call takes the state st = [heap, steps, assigned] it starts   *)
(* in and the number d of Python frames already on the stack, and returns  *)
(* Return(st', outcome).  heap maps each object to its __dict__; steps     *)
(* counts the descriptor methods entered; assigned is a history variable:  *)
(* the <<object, attribute name>> pairs whose OperableProperty was last    *)
(* written (and not deleted since) through its own __set__.                *)
(***************************************************************************)
Q == "'"

\* "'C' object has no attribute 'name'"
NoAttributeMsg(c, name) ==
    <<Q>> \o ClassName(c) \o <<Q, " object has no attribute ", Q>> \o name \o <<Q>>

RecursionError == Err("RecursionError", <<"maximum recursion depth exceeded">>, <<>>)

\* entering one more Python frame
Enter(st) == [st EXCEPT !.steps = @ + 1]

\* operation(*values): operator.mul / truediv / add / sub on two operands
Operation(operation, values) ==
    LET x == values[1]
        y == values[2]
    IN  IF x.t = "descriptor" \/ y.t = "descriptor"
        THEN \* the overloads of _ExpressionDescriptor build a new Result
             Ok(DescriptorObject)
        ELSE IF x.t # "num" \/ y.t # "num"
        THEN Err("TypeError", <<"unsupported operand type(s)">>, <<>>)
        ELSE CASE operation = "mul" -> Ok(Num(x.n * y.n, x.d * y.d))
               [] operation = "add" -> Ok(Num(x.n * y.d + y.n * x.d, x.d * y.d))
               [] operation = "sub" -> Ok(Num(x.n * y.d - y.n * x.d, x.d * y.d))
               [] operation = "truediv" ->
                    IF y.n = 0
                    THEN Err("ZeroDivisionError", <<"division by zero">>, <<>>)
                    ELSE Ok(Num(x.n * y.d, x.d * y.n))

\* the __dict__ with key k bound to v
Store(dict, k, v) == [n \in DOMAIN dict \cup {k} |-> IF n = k THEN v ELSE dict[n]]

\* the __dict__ without key k
Remove(dict, k) == [n \in DOMAIN dict \ {k} |-> dict[n]]

RECURSIVE GetAttr(_, _, _, _)
RECURSIVE DescriptorGet(_, _, _, _)
RECURSIVE ResolveValues(_, _, _, _, _)
RECURSIVE GetLastObjectFrom(_, _, _, _, _)
RECURSIVE ResolveValuesShallow(_, _, _, _, _)

\* getattr(obj, name) on an object of the heap: a data descriptor of the
\* type comes first, then the instance __dict__
GetAttr(st, obj, name, d) ==
    IF name \in DOMAIN Namespace(ClassOf(obj))
    THEN DescriptorGet(st, Namespace(ClassOf(obj))[name], obj, d)
    ELSE IF name \in DOMAIN st.heap[obj]
         THEN Return(st, Ok(st.heap[obj][name]))
         ELSE Return(st, Err("AttributeError", NoAttributeMsg(ClassOf(obj), name), <<>>))

\* getattr(v, name) on any value: a number has no such attribute
GetAttrOf(st, v, name, d) ==
    IF v.t = "obj" THEN GetAttr(st, v.ref, name, d)
    ELSE Return(st, Err("AttributeError", NoAttributeMsg(TypeName(v), name), <<>>))

\* a __get__ that fills a missing slot with a default instead of failing
OperablePropertyGetDefault(st, self, owner, d) ==
    LET r == GetAttr(st, owner, self.private_name, d)
    IN  IF ~r.out.ok /\ r.out.exc = "AttributeError"
        THEN Return([r.st EXCEPT !.heap[owner] = Store(@, self.private_name, IntVal(0))],
                    Ok(IntVal(0)))
        ELSE r

\* OperableProperty.__get__(self, owner)
OperablePropertyGet(st, self, owner, d) ==
    LET r == GetAttr(st, owner, self.private_name, d)
    IN  IF ~r.out.ok /\ r.out.exc = "AttributeError"
        THEN Return(r.st, Err("AttributeError",
                              Replace(r.out.msg, self.private_name, self.name),
                              <<r.out.msg>>))
        ELSE r

\* a comprehension that resolves OperableProperty operands only and takes a
\* nested Result or an Alias as it is
ResolveValuesShallow(st, values, owner, d, i) ==
    IF i > Len(values) THEN [st |-> st, out |-> Ok(None), vals |-> <<>>]
    ELSE LET v == values[i]
             r == IF v.kind = "OperableProperty"
                  THEN DescriptorGet(st, v, owner, d)
                  ELSE IF IsExpressionDescriptor(v)
                       THEN Return(st, Ok(DescriptorObject))
                       ELSE Return(st, Ok(v.val))
         IN  IF ~r.out.ok THEN [st |-> r.st, out |-> r.out, vals |-> <<>>]
             ELSE LET rest == ResolveValuesShallow(r.st, values, owner, d, i + 1)
                  IN  [rest EXCEPT !.vals = <<r.out.val>> \o @]

\* the list comprehension of Result.__get__: the operands from the i-th on,
\* resolved left to right; the first failure ends it
ResolveValues(st, values, owner, d, i) ==
    IF i > Len(values) THEN [st |-> st, out |-> Ok(None), vals |-> <<>>]
    ELSE LET v == values[i]
             r == IF IsExpressionDescriptor(v)
                  THEN DescriptorGet(st, v, owner, d)
                  ELSE Return(st, Ok(v.val))
         IN  IF ~r.out.ok THEN [st |-> r.st, out |-> r.out, vals |-> <<>>]
             ELSE LET rest == ResolveValues(r.st, values, owner, d, i + 1)
                  IN  [rest EXCEPT !.vals = <<r.out.val>> \o @]

\* Result.__get__(self, owner)
ResultGet(st, self, owner, d) ==
    LET r == ResolveValues(st, self.values, owner, d, 1)
    IN  IF ~r.out.ok THEN Return(r.st, r.out)
        ELSE Return(r.st, Operation(self.operation, r.vals))

\* Alias._get_last_object(self, owner), from the i-th name of names_list on
GetLastObjectFrom(st, self, obj, d, i) ==
    IF i > Len(self.names_list) - 1 THEN Return(st, Ok(obj))
    ELSE LET r == GetAttrOf(st, obj, self.names_list[i], d)
         IN  IF ~r.out.ok THEN r
             ELSE GetLastObjectFrom(r.st, self, r.out.val, d, i + 1)

GetLastObject(st, self, owner, d) ==
    IF d >= RecursionLimit THEN Return(st, RecursionError)
    ELSE GetLastObjectFrom(Enter(st), self, Ref(owner), d + 1, 1)

\* Alias.__get__(self, owner)
AliasGet(st, self, owner, d) ==
    LET o == GetLastObject(st, self, owner, d)
    IN  IF ~o.out.ok THEN o
        ELSE LET r == GetAttrOf(o.st, o.out.val, self.attribute_name, d)
             IN  IF ~r.out.ok /\ r.out.exc = "AttributeError"
                 THEN Return(r.st, Err("AttributeError",
                                       Append(r.out.msg, " (accessed from alias)"),
                                       <<r.out.msg>>))
                 ELSE r

\* descriptor.__get__(owner): one more Python frame
DescriptorGet(st, desc, owner, d) ==
    IF d >= RecursionLimit THEN Return(st, RecursionError)
    ELSE CASE desc.kind = "OperableProperty" ->
                OperablePropertyGet(Enter(st), desc, owner, d + 1)
           [] desc.kind = "Result" -> ResultGet(Enter(st), desc, owner, d + 1)
           [] desc.kind = "Alias" -> AliasGet(Enter(st), desc, owner, d + 1)

RECURSIVE SetAttr(_, _, _, _, _)
RECURSIVE DescriptorSet(_, _, _, _, _)
RECURSIVE DelAttr(_, _, _, _)
RECURSIVE DescriptorDelete(_, _, _, _)

\* setattr(obj, name, v) on an object of the heap
SetAttr(st, obj, name, v, d) ==
    IF name \in DOMAIN Namespace(ClassOf(obj))
    THEN DescriptorSet(st, Namespace(ClassOf(obj))[name], obj, v, d)
    ELSE Return([st EXCEPT !.heap[obj] = Store(@, name, v)], Ok(None))

SetAttrOf(st, target, name, v, d) ==
    IF target.t = "obj" THEN SetAttr(st, target.ref, name, v, d)
    ELSE Return(st, Err("AttributeError", NoAttributeMsg(TypeName(target), name), <<>>))

\* delattr(obj, name) on an object of the heap
DelAttr(st, obj, name, d) ==
    IF name \in DOMAIN Namespace(ClassOf(obj))
    THEN DescriptorDelete(st, Namespace(ClassOf(obj))[name], obj, d)
    ELSE IF name \in DOMAIN st.heap[obj]
         THEN Return([st EXCEPT !.heap[obj] = Remove(@, name)], Ok(None))
         ELSE Return(st, Err("AttributeError", NoAttributeMsg(ClassOf(obj), name), <<>>))

DelAttrOf(st, target, name, d) ==
    IF target.t = "obj" THEN DelAttr(st, target.ref, name, d)
    ELSE Return(st, Err("AttributeError", NoAttributeMsg(TypeName(target), name), <<>>))

\* OperableProperty.__set__(self, owner, val)
OperablePropertySet(st, self, owner, val, d) ==
    LET r == SetAttr(st, owner, self.private_name, val, d)
    IN  IF r.out.ok
        THEN Return([r.st EXCEPT !.assigned = @ \cup {<<owner, self.name>>}], r.out)
        ELSE r

\* OperableProperty.__delete__(self, owner)
OperablePropertyDelete(st, self, owner, d) ==
    LET r == DelAttr(st, owner, self.private_name, d)
    IN  IF r.out.ok
        THEN Return([r.st EXCEPT !.assigned = @ \ {<<owner, self.name>>}], r.out)
        ELSE r

\* a __set__ that stores the value on the owner instead of refusing
ResultSetStores(st, self, owner, value, d) ==
    Return([st EXCEPT !.heap[owner] = Store(@, self.name, value)], Ok(None))

\* Result.__set__(self, owner, value)
ResultSet(st, self, owner, value, d) ==
    Return(st, Err("AttributeError",
                   self.name \o <<" is the result of an operation and is not writable">>,
                   <<>>))

\* Result.__delete__(self, owner)
ResultDelete(st, self, owner, d) ==
    Return(st, Err("AttributeError",
                   self.name \o <<" is the result of an operation and is not deletable">>,
                   <<>>))

\* a __set__ that writes the terminal attribute on the owner, without
\* walking the traversal segments
AliasSetOnOwner(st, self, owner, value, d) ==
    SetAttrOf(st, Ref(owner), self.attribute_name, value, d)

\* Alias.__set__(self, owner, value)
AliasSet(st, self, owner, value, d) ==
    LET o == GetLastObject(st, self, owner, d)
    IN  IF ~o.out.ok THEN o
        ELSE SetAttrOf(o.st, o.out.val, self.attribute_name, value, d)

\* Alias.__delete__(self, owner)
AliasDelete(st, self, owner, d) ==
    LET o == GetLastObject(st, self, owner, d)
    IN  IF ~o.out.ok THEN o
        ELSE DelAttrOf(o.st, o.out.val, self.attribute_name, d)

\* descriptor.__set__(owner, v): one more Python frame
DescriptorSet(st, desc, owner, v, d) ==
    IF d >= RecursionLimit THEN Return(st, RecursionError)
    ELSE CASE desc.kind = "OperableProperty" ->
                OperablePropertySet(Enter(st), desc, owner, v, d + 1)
           [] desc.kind = "Result" -> ResultSet(Enter(st), desc, owner, v, d + 1)
           [] desc.kind = "Alias" -> AliasSet(Enter(st), desc, owner, v, d + 1)

\* descriptor.__delete__(owner): one more Python frame
DescriptorDelete(st, desc, owner, d) ==
    IF d >= RecursionLimit THEN Return(st, RecursionError)
    ELSE CASE desc.kind = "OperableProperty" ->
                OperablePropertyDelete(Enter(st), desc, owner, d + 1)
           [] desc.kind = "Result" -> ResultDelete(Enter(st), desc, owner, d + 1)
           [] desc.kind = "Alias" -> AliasDelete(Enter(st), desc, owner, d + 1)

(***************************************************************************)
(* The state machine: an owner instance o of one of the classes, and the   *)
(* attribute accesses a caller makes on it.  last records the most recent  *)
(* access: what it was, on which attribute, with which value, how it       *)
(* ended, and the descriptor methods it entered.                           *)
(***************************************************************************)
NoAccess ==
    [op |-> "none", kind |-> "", name |-> <<>>, arg |-> None, out |-> Ok(None),
     steps |-> 0]

Init ==
    /\ cls \in Classes
    /\ heap = [obj \in Objects |-> [k \in {} |-> None]]
    /\ assigned = {}
    /\ last = NoAccess

\* the names of the class of o bound to a descriptor of the given kind
Declared(kind) == {n \in DOMAIN Namespace(cls) : Namespace(cls)[n].kind = kind}

Start == [heap |-> heap, steps |-> 0, assigned |-> assigned]

\* the state and the record an access leaves
Finish(op, kind, name, arg, r) ==
    /\ heap' = r.st.heap
    /\ assigned' = r.st.assigned
    /\ last' = [op |-> op, kind |-> kind, name |-> name, arg |-> arg,
                out |-> r.out, steps |-> r.st.steps]
    /\ UNCHANGED cls

\* o.name, where name is declared as an OperableProperty
GetOperableProperty ==
    \E name \in Declared("OperableProperty") :
        Finish("get", "OperableProperty", name, None, GetAttr(Start, "o", name, 0))

\* o.name = v, where name is declared as an OperableProperty
SetOperableProperty ==
    \E name \in Declared("OperableProperty"), v \in Values :
        Finish("set", "OperableProperty", name, IntVal(v), SetAttr(Start, "o", name, IntVal(v), 0))

\* del o.name, where name is declared as an OperableProperty
DeleteOperableProperty ==
    \E name \in Declared("OperableProperty") :
        Finish("delete", "OperableProperty", name, None, DelAttr(Start, "o", name, 0))

\* o.name, where name is declared as a Result
GetResult ==
    \E name \in Declared("Result") :
        Finish("get", "Result", name, None, GetAttr(Start, "o", name, 0))

\* o.name = v, where name is declared as a Result
SetResult ==
    \E name \in Declared("Result"), v \in Values :
        Finish("set", "Result", name, IntVal(v), SetAttr(Start, "o", name, IntVal(v), 0))

\* del o.name, where name is declared as a Result
DeleteResult ==
    \E name \in Declared("Result") :
        Finish("delete", "Result", name, None, DelAttr(Start, "o", name, 0))

\* o.name, where name is declared as an Alias
GetAlias ==
    \E name \in Declared("Alias") :
        Finish("get", "Alias", name, None, GetAttr(Start, "o", name, 0))

\* o.name = v, where name is declared as an Alias
SetAlias ==
    \E name \in Declared("Alias"), v \in Values :
        Finish("set", "Alias", name, IntVal(v), SetAttr(Start, "o", name, IntVal(v), 0))

\* del o.name, where name is declared as an Alias
DeleteAlias ==
    \E name \in Declared("Alias") :
        Finish("delete", "Alias", name, None, DelAttr(Start, "o", name, 0))

\* o.inner = an object: the caller gives the owner its nested object (an
\* ordinary instance attribute, no descriptor is involved)
AttachInner ==
    /\ \E n \in Declared("Alias") :
          \E i \in 1..(Len(Namespace(cls)[n].names_list) - 1) :
              Namespace(cls)[n].names_list[i] = n_inner
    /\ \E obj \in {"plain", "holder"} :
          Finish("attach", "", n_inner, Ref(obj),
                 SetAttr(Start, "o", n_inner, Ref(obj), 0))

Next ==
    \/ GetOperableProperty
    \/ SetOperableProperty
    \/ DeleteOperableProperty
    \/ GetResult
    \/ SetResult
    \/ DeleteResult
    \/ GetAlias
    \/ SetAlias
    \/ DeleteAlias
    \/ AttachInner

Spec == Init /\ [][Next]_vars

(***************************************************************************)
(* Observations used by the properties.                                    *)
(***************************************************************************)
\* what reading o.name gives in the current state
ReadingIn(h, name) ==
    GetAttr([heap |-> h, steps |-> 0, assigned |-> {}], "o", name, 0).out

Reading(name) == ReadingIn(heap, name)

\* what resolving a descriptor against o gives in the current state
Resolved(desc) == DescriptorGet(Start, desc, "o", 0).out

\* what o.inner.value gives in the current state, read without the alias
InnerValueIn(h) ==
    IF n_inner \in DOMAIN h["o"]
    THEN GetAttrOf([heap |-> h, steps |-> 0, assigned |-> {}],
                   h["o"][n_inner], n_value, 0).out
    ELSE Err("AttributeError", NoAttributeMsg(cls, n_inner), <<>>)

InnerValue == InnerValueIn(heap)

AliasNote == " (accessed from alias)"

IsAttributeError(out) == ~out.ok /\ out.exc = "AttributeError"

\* an attribute-not-found error carrying the alias note and its cause
Annotated(out) ==
    /\ IsAttributeError(out)
    /\ Len(out.msg) > 0
    /\ out.msg[Len(out.msg)] = AliasNote
    /\ out.cause # <<>>

\* C1: for every OperableProperty p, o.p = v makes o.p read v, and del o.p
\* after it makes o.p raise the attribute-not-found error.
C1_SetGetDelete ==
    /\ (last.op = "set" /\ last.kind = "OperableProperty")
          => (last.out.ok /\ Reading(last.name) = Ok(last.arg))
    /\ (last.op = "delete" /\ last.kind = "OperableProperty" /\ last.out.ok)
          => IsAttributeError(Reading(last.name))

\* an operand as C2 words it: an OperableProperty or a Result is resolved
\* against o, anything else (an Alias too) is taken as it is
ClaimedOperand(v) ==
    IF v.kind \in {"OperableProperty", "Result"} THEN Resolved(v)
    ELSE IF v.kind = "Alias" THEN Ok(DescriptorObject) ELSE Ok(v.val)

\* an operand as resolved now: every descriptor is resolved against o
LiveOperand(v) == IF IsExpressionDescriptor(v) THEN Resolved(v) ELSE Ok(v.val)

\* C2 as stated: a read of a Result gives its operation applied to the
\* operands as they resolve in the current state of o, where only
\* OperableProperty and Result operands are resolved and every other
\* operand is a literal.
C2_OnlyPropertiesAndResultsResolved ==
    (last.op = "get" /\ last.kind = "Result") =>
        LET r == Namespace(cls)[last.name]
            ops == [i \in 1..Len(r.values) |-> ClaimedOperand(r.values[i])]
        IN  (\A i \in 1..Len(r.values) : ops[i].ok) =>
                last.out = Operation(r.operation, [i \in 1..Len(r.values) |-> ops[i].val])

\* C2, amended: a read of a Result is never cached; it gives its operation
\* applied to the operands as they resolve in the current state of o, where
\* OperableProperty, Result and Alias operands are all resolved against o
\* and every other operand is a literal (width=3, height=4 gives area 12,
\* height=5 then gives 15; price=10, quantity=2 gives total 30).
C2_ResultRecomputed ==
    (last.op = "get" /\ last.kind = "Result") =>
        LET r == Namespace(cls)[last.name]
            ops == [i \in 1..Len(r.values) |-> LiveOperand(r.values[i])]
        IN  /\ (\A i \in 1..Len(r.values) : ops[i].ok) =>
                  last.out = Operation(r.operation,
                                       [i \in 1..Len(r.values) |-> ops[i].val])
            /\ (cls = "Rect" /\ Reading(n_width) = Ok(IntVal(3))
                  /\ Reading(n_height) = Ok(IntVal(4))) => last.out = Ok(IntVal(12))
            /\ (cls = "Rect" /\ Reading(n_width) = Ok(IntVal(3))
                  /\ Reading(n_height) = Ok(IntVal(5))) => last.out = Ok(IntVal(15))
            /\ (cls = "Order" /\ last.name = n_total /\ Reading(n_price) = Ok(IntVal(10))
                  /\ Reading(n_quantity) = Ok(IntVal(2))) => last.out = Ok(IntVal(30))

\* a Result over an Alias operand has been read and gave twice o.inner.value
C2_Witness ==
    /\ cls = "Fwd" /\ last.op = "get" /\ last.name = n_doubled
    /\ InnerValue = Ok(IntVal(5)) /\ last.out = Ok(IntVal(10))

\* C3: operand order is kept as composed, reflected forms included: with a
\* and b reading x and y, a-b reads x-y, b-a reads y-x, 5-a reads 5-x, a/b
\* reads x/y, 5/a reads 5/x, and a-b differs from b-a whenever x # y.
C3_OperandOrder ==
    (cls = "Expr" /\ last.op = "get" /\ Reading(n_a).ok /\ Reading(n_b).ok) =>
        LET x == Reading(n_a).val.n
            y == Reading(n_b).val.n
        IN  /\ last.name = n_diff => last.out = Ok(IntVal(x - y))
            /\ last.name = n_rdiff => last.out = Ok(IntVal(y - x))
            /\ last.name = n_five => last.out = Ok(IntVal(5 - x))
            /\ (last.name = n_quot /\ y # 0) => last.out = Ok(Num(x, y))
            /\ (last.name = n_rquot /\ x # 0) => last.out = Ok(Num(5, x))
            /\ x # y => Reading(n_diff) # Reading(n_rdiff)

\* the reflected subtraction 5 - a has been read where 5 - x # x - 5
C3_Witness ==
    /\ cls = "Expr" /\ last.op = "get" /\ last.name = n_five
    /\ Reading(n_a) = Ok(IntVal(2)) /\ last.out = Ok(IntVal(3))

\* C4: setting or deleting a Result always raises the not-writable /
\* not-deletable error, whatever the state of the owner, and leaves the
\* storage of every object as it was, so the Result reads as before.
C4_ResultReadOnly ==
    [][(last'.kind = "Result" /\ last'.op \in {"set", "delete"}) =>
          /\ IsAttributeError(last'.out)
          /\ last'.out.msg = last'.name \o
                <<IF last'.op = "set"
                  THEN " is the result of an operation and is not writable"
                  ELSE " is the result of an operation and is not deletable">>
          /\ heap' = heap
          /\ ReadingIn(heap', last'.name) = ReadingIn(heap, last'.name)]_vars

\* a write to a Result whose operands are set has been refused
C4_Witness ==
    /\ last.kind = "Result" /\ last.op = "set" /\ ~last.out.ok
    /\ Reading(last.name).ok

\* C5: with o.inner an object exposing value, writing the alias of
\* "inner.value" makes o.inner.value and the alias read the value written;
\* deleting it removes value from o.inner, after which the alias raises the
\* attribute-not-found error with the alias note; a read of the alias gives
\* o.inner.value; and none of the three touches the storage of o itself.
C5_AliasForwards ==
    [][(cls = "Fwd" /\ last'.name = n_alias /\ n_inner \in DOMAIN heap["o"]) =>
          /\ heap'["o"] = heap["o"]
          /\ last'.op = "set" =>
                /\ last'.out.ok
                /\ InnerValueIn(heap') = Ok(last'.arg)
                /\ ReadingIn(heap', n_alias) = Ok(last'.arg)
          /\ (last'.op = "delete" /\ last'.out.ok) =>
                /\ InnerValue.ok
                /\ IsAttributeError(InnerValueIn(heap'))
                /\ Annotated(ReadingIn(heap', n_alias))
          /\ last'.op = "get" =>
                IF InnerValue.ok THEN last'.out = InnerValue
                ELSE Annotated(last'.out) /\ last'.out.cause = <<InnerValue.msg>>]_vars

\* the alias has deleted a value that had been written through it
C5_Witness ==
    /\ cls = "Fwd" /\ last.op = "delete" /\ last.name = n_alias /\ last.out.ok
    /\ n_inner \in DOMAIN heap["o"]

\* C6: a read of an Alias that fails because a segment of its path is
\* missing, a traversal segment or the terminal one, fails with an
\* attribute-not-found error that carries the alias note and its cause.
C6_BrokenPathAnnotated ==
    (last.op = "get" /\ last.kind = "Alias" /\ IsAttributeError(last.out)) =>
        Annotated(last.out)

\* C7: the storage key of an OperableProperty never collides: a set or a
\* delete through one OperableProperty never changes what another
\* OperableProperty of the same class reads.
C7_NoStorageCollision ==
    [][\A p, q \in Declared("OperableProperty") :
          (p # q /\ last'.name = p /\ last'.op \in {"set", "delete"}) =>
              ReadingIn(heap', q) = ReadingIn(heap, q)]_vars

\* the OperableProperties a Result depends on, directly or through Results
RECURSIVE Leaves(_)
Leaves(desc) ==
    IF desc.kind = "OperableProperty" THEN {desc}
    ELSE IF desc.kind = "Result"
         THEN UNION {Leaves(desc.values[i]) : i \in 1..Len(desc.values)}
         ELSE {}

\* an attribute-not-found error naming p by its public name only
NamesPublic(out, p) ==
    /\ IsAttributeError(out)
    /\ Contains(out.msg, <<Q>> \o p.name \o <<Q>>)
    /\ ~Contains(out.msg, p.private_name)

\* C8: while p has not been written (or was deleted since), a read of p, of
\* a Result depending on p, or of an Alias ending on p raises an
\* attribute-not-found error naming the public name of p and not its
\* storage key; it never returns a value.
C8_UnsetNeverReads ==
    last.op = "get" =>
        LET desc == Namespace(cls)[last.name]
        IN  /\ (desc.kind = "OperableProperty" /\ <<"o", desc.name>> \notin assigned)
                  => NamesPublic(last.out, desc)
            /\ (desc.kind = "Result"
                  /\ \E p \in Leaves(desc) : <<"o", p.name>> \notin assigned)
                  => \E p \in Leaves(desc) :
                        <<"o", p.name>> \notin assigned /\ NamesPublic(last.out, p)
            /\ (cls = "Fwd" /\ desc.kind = "Alias" /\ n_inner \in DOMAIN heap["o"]
                  /\ heap["o"][n_inner] = Ref("holder")
                  /\ <<"holder", n_value>> \notin assigned)
                  => NamesPublic(last.out, p_value)

\* C9: reading a Result, whether it gives a value or fails on an unset
\* operand, leaves the storage of every object as it was.
C9_ResultReadIsPure ==
    [][(last'.op = "get" /\ last'.kind = "Result") => heap' = heap]_vars

\* a Result has failed on an unset operand while another operand is stored
C9_Witness ==
    /\ last.op = "get" /\ last.kind = "Result" /\ IsAttributeError(last.out)
    /\ heap["o"] # [k \in {} |-> None]

\* the depth of the expression tree of a Result (1 for a leaf descriptor)
RECURSIVE TreeDepth(_)
TreeDepth(desc) ==
    IF desc.kind = "Result"
    THEN 1 + (CHOOSE m \in {TreeDepth(desc.values[i]) : i \in 1..Len(desc.values)} :
                \A i \in 1..Len(desc.values) : TreeDepth(desc.values[i]) <= m)
    ELSE IF desc.kind = "literal" THEN 0 ELSE 1

\* the depth of the expression tree, or the length of the alias path
Size(desc) == IF desc.kind = "Alias" THEN Len(desc.names_list) ELSE TreeDepth(desc)

\* C10: every get, set or delete on a declared attribute ends, with a value
\* or an error, without exhausting the stack, after a number of descriptor
\* calls bounded by the depth of the expression tree or the length of the
\* alias path, whatever path an Alias names.
C10_BoundedSteps ==
    last.op \in {"get", "set", "delete"} =>
        /\ last.out.exc # "RecursionError"
        /\ last.steps <= StepFactor * Size(Namespace(cls)[last.name])

====
